---- MODULE Spec2Model ----
(***************************************************************************)
(* Weekly schedule viewer (src/calendar.py): column normalisation, day     *)
(* ordering, clock parsing, the slot grid, the export table and the file   *)
(* loading loop of main().                                                 *)
(*                                                                         *)
(* Texts (Python str) are sequences of one-character strings, so that      *)
(* strip / lower / split / "in" are computed and never assumed.            *)
(***************************************************************************)
EXTENDS Integers, Sequences, FiniteSets, TLC

VARIABLES
    pc,             \* which operation acted last / position in main()
    time_str,       \* parse_time_minutes: argument
    minutes,        \* parse_time_minutes: returned value
    event,          \* slot test of create_calendar_heatmap: the event row
    slot,           \* slot test: slot start minute
    matching,       \* slot test: TRUE iff the event was appended to matching_events
    days_list,      \* sort_days: argument
    sorted_days,    \* sort_days: returned list
    raw_df,         \* normalize_dataframe: the sheet as read
    normalized_df,  \* normalize_dataframe: returned DataFrame, or the exception raised
    tab_df,         \* the builders: the schedule (busy_df or quiet_df)
    tab_days,       \* the builders: the day list
    fig,            \* create_calendar_heatmap: returned figure, or None
    ws_rows,        \* create_excel_export: the data rows written to the sheet
    data_dir,       \* main: what DATA_DIR holds under busy_week.xlsx and quiet_week.xlsx
    uploaded_files, \* main: the files of the uploader, in order
    file_i,         \* main: position of the loop over uploaded_files
    busy_df,        \* main: the busy schedule
    quiet_df,       \* main: the quiet schedule
    sidebar         \* main: the messages written to the sidebar

timeVars == <<time_str, minutes, event, slot, matching>>
dayVars == <<days_list, sorted_days>>
normVars == <<raw_df, normalized_df>>
buildVars == <<tab_df, tab_days, fig, ws_rows>>
mainVars == <<data_dir, uploaded_files, file_i, busy_df, quiet_df, sidebar>>
vars == <<pc, timeVars, dayVars, normVars, buildVars, mainVars>>

(***************************************************************************)
(* Python str primitives                                                   *)
(***************************************************************************)
Whitespace == {" ", "\t", "\n"}

UpperToLower ==
    ("A" :> "a") @@ ("B" :> "b") @@ ("C" :> "c") @@ ("D" :> "d") @@ ("E" :> "e") @@
    ("F" :> "f") @@ ("G" :> "g") @@ ("H" :> "h") @@ ("I" :> "i") @@ ("J" :> "j") @@
    ("K" :> "k") @@ ("L" :> "l") @@ ("M" :> "m") @@ ("N" :> "n") @@ ("O" :> "o") @@
    ("P" :> "p") @@ ("Q" :> "q") @@ ("R" :> "r") @@ ("S" :> "s") @@ ("T" :> "t") @@
    ("U" :> "u") @@ ("V" :> "v") @@ ("W" :> "w") @@ ("X" :> "x") @@ ("Y" :> "y") @@
    ("Z" :> "z")

\* str.lower()
lower(s) == [i \in 1..Len(s) |-> IF s[i] \in DOMAIN UpperToLower THEN UpperToLower[s[i]] ELSE s[i]]

RECURSIVE lstrip(_)
lstrip(s) == IF s # <<>> /\ Head(s) \in Whitespace THEN lstrip(Tail(s)) ELSE s

RECURSIVE rstrip(_)
rstrip(s) == IF s # <<>> /\ s[Len(s)] \in Whitespace THEN rstrip(SubSeq(s, 1, Len(s) - 1)) ELSE s

\* str.strip()
strip(s) == rstrip(lstrip(s))

\* "k in s" for texts
contains(s, k) == \E i \in 1..(Len(s) - Len(k) + 1) : SubSeq(s, i, i + Len(k) - 1) = k

\* str.split(sep) for a one-character separator: one more part than separators
RECURSIVE split_on(_, _)
split_on(s, sep) ==
    IF \A i \in 1..Len(s) : s[i] # sep
    THEN <<s>>
    ELSE LET i == CHOOSE j \in 1..Len(s) : s[j] = sep /\ \A k \in 1..(j - 1) : s[k] # sep
         IN  <<SubSeq(s, 1, i - 1)>> \o split_on(SubSeq(s, i + 1, Len(s)), sep)

\* str.split() without argument: runs of whitespace separate, no empty parts
RECURSIVE split_ws(_)
split_ws(s) ==
    LET t == lstrip(s)
    IN  IF t = <<>>
        THEN <<>>
        ELSE LET n == IF \E j \in 1..Len(t) : t[j] \in Whitespace
                      THEN (CHOOSE j \in 1..Len(t) : t[j] \in Whitespace /\ \A k \in 1..(j - 1) : t[k] \notin Whitespace) - 1
                      ELSE Len(t)
             IN  <<SubSeq(t, 1, n)>> \o split_ws(SubSeq(t, n + 1, Len(t)))

\* the text as a TLA+ string, to key the literal tables of the source
RECURSIVE Join(_)
Join(s) == IF s = <<>> THEN "" ELSE Head(s) \o Join(Tail(s))

DigitVal ==
    ("0" :> 0) @@ ("1" :> 1) @@ ("2" :> 2) @@ ("3" :> 3) @@ ("4" :> 4) @@
    ("5" :> 5) @@ ("6" :> 6) @@ ("7" :> 7) @@ ("8" :> 8) @@ ("9" :> 9)

RECURSIVE DigitsVal(_)
DigitsVal(s) == IF s = <<>> THEN 0 ELSE DigitsVal(SubSeq(s, 1, Len(s) - 1)) * 10 + DigitVal[s[Len(s)]]

\* U+2013 EN DASH, a character of the archetype keys
EnDash == "U+2013"

\* Python values: None and int
None == [py |-> "None"]
PyInt(n) == [py |-> "int", v |-> n]
ValueError == [py |-> "ValueError"]

\* truth value of a Python object in a condition: None and 0 are false
Truthy(x) == x.py = "int" /\ x.v # 0

\* int(text): surrounding whitespace, an optional sign, then decimal digits;
\* anything else raises ValueError (the "_" that int() accepts between digits
\* is not a character of the texts used here)
int(s) ==
    LET t == strip(s)
        signed == t # <<>> /\ Head(t) \in {"+", "-"}
        body == IF signed THEN Tail(t) ELSE t
    IN  IF body # <<>> /\ \A i \in 1..Len(body) : body[i] \in DOMAIN DigitVal
        THEN PyInt(IF signed /\ Head(t) = "-" THEN 0 - DigitsVal(body) ELSE DigitsVal(body))
        ELSE ValueError

(***************************************************************************)
(* Time Resolver: parse_time_minutes                                       *)
(***************************************************************************)
\* the body of the try block; the argument is a str here (every cell is a
\* str after normalize_dataframe), so pd.isna is false. An int() that fails
\* raises ValueError out of the block.
parse_time_minutes_try(text) ==
    LET s == strip(text)
    IN  IF contains(s, <<":">>)
        THEN LET parts == split_on(s, ":")
             IN  IF Len(parts) >= 2
                 THEN IF int(parts[1]).py = "int" /\ int(parts[2]).py = "int"
                      THEN PyInt(int(parts[1]).v * 60 + int(parts[2]).v)
                      ELSE ValueError
                 ELSE None
        ELSE None

\* without the except clause the exception reaches the caller
parse_time_minutes_no_except(text) == parse_time_minutes_try(text)

\* try: ... except: return None
parse_time_minutes(text) ==
    LET r == parse_time_minutes_try(text)
    IN  IF r = ValueError THEN None ELSE r

\* the slots of the daily window
slot_minutes == 30
start_hour == 6
end_hour == 23
slots == {m \in (start_hour * 60)..(end_hour * 60 - 1) : (m - start_hour * 60) % slot_minutes = 0}

\* the condition under which an event row is appended to matching_events
occupies_slot(ev, sl) ==
    LET start_min == parse_time_minutes(ev.start)
        end_min == parse_time_minutes(ev.end)
    IN  Truthy(start_min) /\ Truthy(end_min) /\ start_min.v <= sl /\ sl < end_min.v

(***************************************************************************)
(* Day Ordering: sort_days                                                 *)
(***************************************************************************)
day_order ==
    ("monday" :> 1) @@ ("mon" :> 1) @@ ("lundi" :> 1) @@ ("lun" :> 1) @@
    ("tuesday" :> 2) @@ ("tue" :> 2) @@ ("mardi" :> 2) @@ ("mar" :> 2) @@
    ("wednesday" :> 3) @@ ("wed" :> 3) @@ ("mercredi" :> 3) @@ ("mer" :> 3) @@
    ("thursday" :> 4) @@ ("thu" :> 4) @@ ("jeudi" :> 4) @@ ("jeu" :> 4) @@
    ("friday" :> 5) @@ ("fri" :> 5) @@ ("vendredi" :> 5) @@ ("ven" :> 5) @@
    ("saturday" :> 6) @@ ("sat" :> 6) @@ ("samedi" :> 6) @@ ("sam" :> 6) @@
    ("sunday" :> 7) @@ ("sun" :> 7) @@ ("dimanche" :> 7) @@ ("dim" :> 7)

nan_text == <<"n", "a", "n">>

\* the test under which a label goes to filtered_days (labels are str, so
\* pd.notna holds)
keeps_day(d) ==
    LET d_str == strip(d)
    IN  d_str # <<>> /\ lower(d_str) # nan_text

RECURSIVE filtered_days(_)
filtered_days(list) ==
    IF list = <<>>
    THEN <<>>
    ELSE IF keeps_day(Head(list))
         THEN <<Head(list)>> \o filtered_days(Tail(list))
         ELSE filtered_days(Tail(list))

get_day_order_key(day_str) ==
    IF strip(day_str) = <<>>
    THEN 99
    ELSE LET day_str_clean == lower(strip(day_str))
             parts == split_ws(day_str_clean)
         IN  IF parts = <<>>
             THEN 99
             ELSE IF Join(parts[1]) \in DOMAIN day_order THEN day_order[Join(parts[1])] ELSE 99

\* an insertion that puts the label before the labels of equal key
insert_by_key_before_ties(out, d) ==
    LET n == Cardinality({i \in 1..Len(out) : get_day_order_key(out[i]) < get_day_order_key(d)})
    IN  SubSeq(out, 1, n) \o <<d>> \o SubSeq(out, n + 1, Len(out))

\* sorted() is stable: a label goes after every label of smaller or equal key
\* that precedes it in the input
insert_by_key(out, d) ==
    LET n == Cardinality({i \in 1..Len(out) : get_day_order_key(out[i]) <= get_day_order_key(d)})
    IN  SubSeq(out, 1, n) \o <<d>> \o SubSeq(out, n + 1, Len(out))

RECURSIVE sorted_by_key(_)
sorted_by_key(list) ==
    IF list = <<>>
    THEN <<>>
    ELSE insert_by_key(sorted_by_key(SubSeq(list, 1, Len(list) - 1)), list[Len(list)])

sort_days(list) == sorted_by_key(filtered_days(list))

(***************************************************************************)
(* Record Normalizer: normalize_dataframe                                  *)
(*                                                                         *)
(* A DataFrame is [columns |-> sequence of labels, data |-> sequence of    *)
(* rows], a row being the sequence of its cells in column order. A cell of *)
(* a sheet as read is blank (NaN), a text or an integer.                   *)
(***************************************************************************)
NaN == [py |-> "nan"]
Str(text) == [py |-> "str", s |-> text]
AttributeError == [py |-> "AttributeError"]
DataFrame(columns, data) == [py |-> "DataFrame", columns |-> columns, data |-> data]

K_date == <<"d", "a", "t", "e">>
K_day == <<"d", "a", "y">>
K_activity == <<"a", "c", "t", "i", "v", "i", "t", "y">>
K_title == <<"t", "i", "t", "l", "e">>
K_start == <<"s", "t", "a", "r", "t">>
K_end == <<"e", "n", "d">>
K_archetype == <<"a", "r", "c", "h", "e", "t", "y", "p", "e">>
K_note == <<"n", "o", "t", "e">>
K_detail == <<"d", "e", "t", "a", "i", "l">>
K_exam == <<"e", "x", "a", "m">>
K_notes == <<"n", "o", "t", "e", "s">>

CHR_Chronos == <<"C", "H", "R", " ", EnDash, " ", "C", "h", "r", "o", "n", "o", "s">>

\* the if/elif chain: is the label given a standard name at all
recognized(col) ==
    LET col_lower == lower(strip(col))
    IN  \/ contains(col_lower, K_date) \/ col_lower = K_day
        \/ contains(col_lower, K_activity) \/ contains(col_lower, K_title)
        \/ contains(col_lower, K_start)
        \/ contains(col_lower, K_end)
        \/ contains(col_lower, K_archetype)
        \/ contains(col_lower, K_note) \/ contains(col_lower, K_detail) \/ contains(col_lower, K_exam)

\* an if/elif chain that tests 'start' and 'end' before 'date'
standard_name_end_first(col) ==
    LET col_lower == lower(strip(col))
    IN  IF contains(col_lower, K_start) THEN K_start
        ELSE IF contains(col_lower, K_end) THEN K_end
        ELSE IF contains(col_lower, K_date) \/ col_lower = K_day THEN K_day
        ELSE IF contains(col_lower, K_activity) \/ contains(col_lower, K_title) THEN K_title
        ELSE IF contains(col_lower, K_archetype) THEN K_archetype
        ELSE K_notes

\* the if/elif chain: the standard name of a recognized label
standard_name(col) ==
    LET col_lower == lower(strip(col))
    IN  IF contains(col_lower, K_date) \/ col_lower = K_day THEN K_day
        ELSE IF contains(col_lower, K_activity) \/ contains(col_lower, K_title) THEN K_title
        ELSE IF contains(col_lower, K_start) THEN K_start
        ELSE IF contains(col_lower, K_end) THEN K_end
        ELSE IF contains(col_lower, K_archetype) THEN K_archetype
        ELSE K_notes

\* the dict built by the loop over df.columns: original label -> standard name
column_mapping(columns) ==
    [col \in {c \in {columns[i] : i \in 1..Len(columns)} : recognized(c)} |-> standard_name(col)]

\* a rename that keeps only the columns the mapping names
rename_mapped_only(df, mapping) ==
    LET kept == {i \in 1..Len(df.columns) : df.columns[i] \in DOMAIN mapping}
        nth(k) == CHOOSE i \in kept : Cardinality({j \in kept : j < i}) = k - 1
    IN  DataFrame([k \in 1..Cardinality(kept) |-> mapping[df.columns[nth(k)]]],
                  [r \in 1..Len(df.data) |-> [k \in 1..Cardinality(kept) |-> df.data[r][nth(k)]]])

\* df.rename(columns=column_mapping): labels outside the mapping are kept
rename(df, mapping) ==
    DataFrame([i \in 1..Len(df.columns) |->
                    IF df.columns[i] \in DOMAIN mapping THEN mapping[df.columns[i]] ELSE df.columns[i]],
              df.data)

has_column(df, col) == \E i \in 1..Len(df.columns) : df.columns[i] = col

\* if col not in df.columns: df[col] = value
ensure_column(df, col, value) ==
    IF has_column(df, col)
    THEN df
    ELSE DataFrame(Append(df.columns, col), [r \in 1..Len(df.data) |-> Append(df.data[r], value)])

\* the Series of column i
column_cells(df, i) == [r \in 1..Len(df.data) |-> df.data[r][i]]

RECURSIVE digits_of(_)
digits_of(n) ==
    LET d == CHOOSE c \in DOMAIN DigitVal : DigitVal[c] = n % 10
    IN  IF n < 10 THEN <<d>> ELSE Append(digits_of(n \div 10), d)

\* series.fillna("").astype(str) of one cell. A column of integers with a
\* blank in it and no text is float64 when read, so its integers print as
\* floats; in an integer or object column an integer prints as an integer.
filled_str(series, cell) ==
    IF cell = NaN THEN <<>>
    ELSE IF cell.py = "str" THEN cell.s
    ELSE IF (\E r \in 1..Len(series) : series[r] = NaN) /\ (\A r \in 1..Len(series) : series[r].py # "str")
         THEN digits_of(cell.v) \o <<".", "0">>
         ELSE digits_of(cell.v)

\* the cleaning loop: df[col] = df[col].fillna("").astype(str).str.strip().
\* df[col] of a label carried by two columns is a DataFrame, which has no
\* .str accessor: the loop raises AttributeError at that label.
clean(df) ==
    IF \E i, j \in 1..Len(df.columns) : i # j /\ df.columns[i] = df.columns[j]
    THEN AttributeError
    ELSE DataFrame(df.columns,
                   [r \in 1..Len(df.data) |->
                      [i \in 1..Len(df.columns) |-> Str(strip(filled_str(column_cells(df, i), df.data[r][i])))]])

normalize_dataframe(df) ==
    LET renamed == rename(df, column_mapping(df.columns))
        d1 == ensure_column(renamed, K_day, Str(<<>>))
        d2 == ensure_column(d1, K_title, Str(<<>>))
        d3 == ensure_column(d2, K_start, Str(<<>>))
        d4 == ensure_column(d3, K_end, Str(<<>>))
        d5 == ensure_column(d4, K_archetype, Str(CHR_Chronos))
        d6 == ensure_column(d5, K_notes, Str(<<>>))
    IN  clean(d6)

(***************************************************************************)
(* Grid Builder and Export Table Builder                                   *)
(***************************************************************************)
\* GREEK_ARCHETYPES: key -> symbol, a symbol being its code points
GREEK_ARCHETYPES ==
    (("CHR " \o EnDash \o " Chronos") :> <<"U+23F1", "U+FE0F">>) @@
    (("KAI " \o EnDash \o " Kairos") :> <<"U+1F3AF">>) @@
    (("AIO " \o EnDash \o " Aion") :> <<"U+267E", "U+FE0F">>) @@
    (("ANA " \o EnDash \o " Ananke") :> <<"U+26A1">>) @@
    (("HEL " \o EnDash \o " Helios") :> <<"U+2600", "U+FE0F">>) @@
    (("NYX " \o EnDash \o " Nyx") :> <<"U+1F319">>) @@
    (("EOS " \o EnDash \o " Eos") :> <<"U+1F305">>) @@
    (("HOR " \o EnDash \o " Horae") :> <<"U+1F331">>) @@
    (("MNE " \o EnDash \o " Mnemosyne") :> <<"U+1F4AD">>) @@
    (("HYP " \o EnDash \o " Hypnos") :> <<"U+1F634">>) @@
    (("ONE " \o EnDash \o " Oneiros") :> <<"U+2728">>) @@
    ("Movement/Commute" :> <<"U+1F68C">>) @@
    ("(empty)" :> <<"U+2B55">>)

EMPTY == <<"(", "e", "m", "p", "t", "y", ")">>
Free_time == <<"F", "r", "e", "e", " ", "t", "i", "m", "e">>

\* ord() of the characters the archetype keys are written with
ord ==
    (" " :> 32) @@ ("(" :> 40) @@ (")" :> 41) @@ ("-" :> 45) @@ ("." :> 46) @@ ("/" :> 47) @@
    (":" :> 58) @@ ("0" :> 48) @@ ("1" :> 49) @@ ("2" :> 50) @@ ("3" :> 51) @@ ("4" :> 52) @@
    ("5" :> 53) @@ ("6" :> 54) @@ ("7" :> 55) @@ ("8" :> 56) @@ ("9" :> 57) @@ ("A" :> 65) @@
    ("B" :> 66) @@ ("C" :> 67) @@ ("D" :> 68) @@ ("E" :> 69) @@ ("F" :> 70) @@ ("G" :> 71) @@
    ("H" :> 72) @@ ("I" :> 73) @@ ("J" :> 74) @@ ("K" :> 75) @@ ("L" :> 76) @@ ("M" :> 77) @@
    ("N" :> 78) @@ ("O" :> 79) @@ ("P" :> 80) @@ ("Q" :> 81) @@ ("R" :> 82) @@ ("S" :> 83) @@
    ("T" :> 84) @@ ("U" :> 85) @@ ("V" :> 86) @@ ("W" :> 87) @@ ("X" :> 88) @@ ("Y" :> 89) @@
    ("Z" :> 90) @@ ("a" :> 97) @@ ("b" :> 98) @@ ("c" :> 99) @@ ("d" :> 100) @@ ("e" :> 101) @@
    ("f" :> 102) @@ ("g" :> 103) @@ ("h" :> 104) @@ ("i" :> 105) @@ ("j" :> 106) @@ ("k" :> 107) @@
    ("l" :> 108) @@ ("m" :> 109) @@ ("n" :> 110) @@ ("o" :> 111) @@ ("p" :> 112) @@ ("q" :> 113) @@
    ("r" :> 114) @@ ("s" :> 115) @@ ("t" :> 116) @@ ("u" :> 117) @@ ("v" :> 118) @@ ("w" :> 119) @@
    ("x" :> 120) @@ ("y" :> 121) @@ ("z" :> 122) @@ (EnDash :> 8211)

\* a < b for str: the first differing character decides, a proper prefix is smaller
text_less(a, b) ==
    LET n == IF Len(a) < Len(b) THEN Len(a) ELSE Len(b)
        differ == {i \in 1..n : a[i] # b[i]}
    IN  IF differ = {}
        THEN Len(a) < Len(b)
        ELSE LET i == CHOOSE j \in differ : \A k \in differ : j <= k
             IN  ord[a[i]] < ord[b[i]]

\* event[col] of row r
event_field(df, r, col) == df.data[r][CHOOSE i \in 1..Len(df.columns) : df.columns[i] = col].s

\* df[df["day"].str.strip().str.lower() == day_str.lower()], as row indices
day_events(df, day) ==
    {r \in 1..Len(df.data) : lower(strip(event_field(df, r, K_day))) = lower(strip(day))}

\* the elements of a set of row indices in row order
in_row_order(rows) ==
    [k \in 1..Cardinality(rows) |-> CHOOSE r \in rows : Cardinality({q \in rows : q < r}) = k - 1]

\* sorted(set(df["archetype"].unique().tolist() + ["(empty)"]))
all_archetypes(df) == {event_field(df, r, K_archetype) : r \in 1..Len(df.data)} \cup {EMPTY}

\* arch_to_idx[a]: the position of a in the sorted list, from 0
arch_to_idx(df, a) == Cardinality({x \in all_archetypes(df) : text_less(x, a)})

\* the rows appended to matching_events for one day and slot
matching_events(df, day, sl) ==
    {r \in day_events(df, day) :
        occupies_slot([start |-> event_field(df, r, K_start), end |-> event_field(df, r, K_end)], sl)}

\* display_text[:30]
display_text(df, r) ==
    LET archetype == event_field(df, r, K_archetype)
        symbol == IF Join(archetype) \in DOMAIN GREEK_ARCHETYPES THEN GREEK_ARCHETYPES[Join(archetype)] ELSE <<>>
        full == IF symbol # <<>> THEN symbol \o <<" ">> \o event_field(df, r, K_title) ELSE event_field(df, r, K_title)
    IN  SubSeq(full, 1, IF Len(full) < 30 THEN Len(full) ELSE 30)

\* a grid whose empty cells take the first category index
create_calendar_heatmap_empty_first(df, days) ==
    IF Len(df.data) = 0
    THEN None
    ELSE LET first == [sl \in slots |-> [k \in 1..Len(days) |->
                          LET m == matching_events(df, days[k], sl)
                          IN  IF m = {} THEN 0 ELSE CHOOSE r \in m : \A q \in m : r <= q]]
         IN  [py |-> "Figure",
              x |-> days,
              event |-> first,
              z |-> [sl \in slots |-> [k \in 1..Len(days) |->
                        IF first[sl][k] = 0 THEN 0
                        ELSE arch_to_idx(df, event_field(df, first[sl][k], K_archetype))]],
              text |-> [sl \in slots |-> [k \in 1..Len(days) |->
                        IF first[sl][k] = 0 THEN <<>> ELSE display_text(df, first[sl][k])]]]

\* the figure: for every slot and day the row index of matching_events[0]
\* (0 when there is none), its category index z and its text
create_calendar_heatmap(df, days) ==
    IF Len(df.data) = 0
    THEN None
    ELSE LET first == [sl \in slots |-> [k \in 1..Len(days) |->
                          LET m == matching_events(df, days[k], sl)
                          IN  IF m = {} THEN 0 ELSE CHOOSE r \in m : \A q \in m : r <= q]]
         IN  [py |-> "Figure",
              x |-> days,
              event |-> first,
              z |-> [sl \in slots |-> [k \in 1..Len(days) |->
                        IF first[sl][k] = 0 THEN arch_to_idx(df, EMPTY)
                        ELSE arch_to_idx(df, event_field(df, first[sl][k], K_archetype))]],
              text |-> [sl \in slots |-> [k \in 1..Len(days) |->
                        IF first[sl][k] = 0 THEN <<>> ELSE display_text(df, first[sl][k])]]]

\* the sheet rows written for one day; index is the row label that
\* iterrows() yields with the event (0 on a "Free time" row)
export_day(df, day) ==
    LET rows == in_row_order(day_events(df, day))
    IN  IF rows = <<>>
        THEN << [index |-> 0, A |-> Str(day), B |-> None, C |-> Str(Free_time), D |-> None, E |-> None] >>
        ELSE [k \in 1..Len(rows) |->
                [index |-> rows[k],
                 A |-> Str(day),
                 B |-> Str(event_field(df, rows[k], K_start) \o <<"-">> \o event_field(df, rows[k], K_end)),
                 C |-> Str(event_field(df, rows[k], K_title)),
                 D |-> Str(event_field(df, rows[k], K_archetype)),
                 E |-> Str(event_field(df, rows[k], K_notes))]]

\* the data rows of the sheet, from row 4 on
RECURSIVE create_excel_export(_, _)
create_excel_export(df, days) ==
    IF days = <<>> THEN <<>> ELSE export_day(df, Head(days)) \o create_excel_export(df, Tail(days))

\* Series.unique(): the values in order of first appearance
RECURSIVE unique(_)
unique(series) ==
    IF series = <<>>
    THEN <<>>
    ELSE LET before == unique(SubSeq(series, 1, Len(series) - 1))
             last == series[Len(series)]
         IN  IF \E i \in 1..Len(before) : before[i] = last THEN before ELSE Append(before, last)

(***************************************************************************)
(* main(): loading the schedules                                           *)
(***************************************************************************)
K_busy == <<"b", "u", "s", "y">>
K_quiet == <<"q", "u", "i", "e", "t">>

\* what a path or an upload holds when pd.read_excel cannot read it
Unreadable == [py |-> "unreadable"]
Absent == [py |-> "absent"]
ReadError == [py |-> "Exception"]

\* pd.read_excel followed by normalize_dataframe, inside the try block: the
\* DataFrame, or the exception that leaves the block
read_and_normalize(content) ==
    IF content = Unreadable THEN ReadError ELSE normalize_dataframe(content)

\* the sidebar lines of one load: normalize_dataframe's own info line, then
\* the outcome
load_messages(name, loaded, kind) ==
    IF loaded.py = "DataFrame"
    THEN << [level |-> "info", file |-> name], [level |-> kind, file |-> name] >>
    ELSE << [level |-> "error", file |-> name] >>

\* an upload whose failure empties the schedule it was meant for
after_upload_reset_on_error(busy, quiet, file) ==
    LET normalized == read_and_normalize(file.content)
        ok == normalized.py = "DataFrame"
        new == IF ok THEN normalized ELSE DataFrame(<<>>, <<>>)
    IN  IF contains(lower(file.name), K_busy)
        THEN [busy |-> new, quiet |-> quiet, messages |-> load_messages(file.name, normalized, "success")]
        ELSE IF contains(lower(file.name), K_quiet)
             THEN [busy |-> busy, quiet |-> new, messages |-> load_messages(file.name, normalized, "success")]
             ELSE [busy |-> new, quiet |-> quiet, messages |-> load_messages(file.name, normalized, "info")]

\* the body of the loop over uploaded_files: the two schedules and the
\* sidebar lines after one file
after_upload(busy, quiet, file) ==
    LET normalized == read_and_normalize(file.content)
    IN  IF normalized.py # "DataFrame"
        THEN [busy |-> busy, quiet |-> quiet, messages |-> load_messages(file.name, normalized, "error")]
        ELSE IF contains(lower(file.name), K_busy)
             THEN [busy |-> normalized, quiet |-> quiet, messages |-> load_messages(file.name, normalized, "success")]
             ELSE IF contains(lower(file.name), K_quiet)
                  THEN [busy |-> busy, quiet |-> normalized, messages |-> load_messages(file.name, normalized, "success")]
                  ELSE [busy |-> normalized, quiet |-> quiet, messages |-> load_messages(file.name, normalized, "info")]

(***************************************************************************)
(* Inputs of the Time Resolver                                             *)
(***************************************************************************)
MaxTimeLen == 4
TimeAlphabet == {"0", "8", ":", " ", "x", "-"}

RECURSIVE TextsUpTo(_, _)
TextsUpTo(alphabet, n) ==
    IF n = 0
    THEN {<<>>}
    ELSE LET shorter == TextsUpTo(alphabet, n - 1)
         IN  shorter \cup {Append(t, c) : t \in {u \in shorter : Len(u) = n - 1}, c \in alphabet}

\* the worked examples of the specification
T_0800 == <<"0", "8", ":", "0", "0">>
T_0845 == <<"0", "8", ":", "4", "5">>
T_080000 == <<"0", "8", ":", "0", "0", ":", "0", "0">>
T_0000 == <<"0", "0", ":", "0", "0">>
T_0700 == <<"0", "7", ":", "0", "0">>
T_2300 == <<"2", "3", ":", "0", "0">>
T_8 == <<"8">>
T_empty == <<>>

TimeTexts == TextsUpTo(TimeAlphabet, MaxTimeLen) \cup {T_0800, T_0845, T_080000, T_0000, T_0700, T_2300}
ClockTexts == {T_0800, T_0845, T_080000, T_0000, T_0700, T_2300, T_8, T_empty, <<"8", ":", "x">>}

(***************************************************************************)
(* Inputs of Day Ordering                                                  *)
(***************************************************************************)
MaxDays == 4

D_Friday == <<"F", "r", "i", "d", "a", "y">>
D_monday == <<"m", "o", "n", "d", "a", "y">>
D_Monday == <<"M", "o", "n", "d", "a", "y">>
D_Tue_date == <<"T", "u", "e", " ", "2", "0", "2", "4", "-", "0", "1", "-", "0", "2">>
D_Lundi == <<"L", "u", "n", "d", "i">>
D_dim == <<" ", "d", "i", "m", " ">>
D_Someday == <<"S", "o", "m", "e", "d", "a", "y">>
D_blank == <<>>
D_nan == <<"n", "a", "n">>
D_NaN == <<"N", "a", "N">>

DayLabels == {D_Friday, D_monday, D_Monday, D_Tue_date, D_Lundi, D_dim, D_Someday, D_blank, D_nan, D_NaN}

\* the lists of pairwise distinct elements of S of length at most n
\* (Series.unique() never repeats a value)
DistinctLists(S, n) ==
    {l \in UNION {[1..k -> S] : k \in 0..n} : \A i, j \in 1..Len(l) : i # j => l[i] # l[j]}

(***************************************************************************)
(* Inputs of the Record Normalizer                                         *)
(***************************************************************************)
MaxCols == 2
MaxRows == 1

L_Day == <<"D", "a", "y">>
L_Date == <<"D", "a", "t", "e">>
L_Activity == <<"A", "c", "t", "i", "v", "i", "t", "y">>
L_Start == <<"S", "t", "a", "r", "t">>
L_End_Date == <<"E", "n", "d", " ", "D", "a", "t", "e">>
L_End_Time == <<"E", "n", "d", " ", "T", "i", "m", "e">>
L_Archetype == <<"A", "r", "c", "h", "e", "t", "y", "p", "e">>
L_Details == <<"D", "e", "t", "a", "i", "l", "s">>
L_NOTES == <<" ", "N", "O", "T", "E", "S", " ">>
L_Room == <<"R", "o", "o", "m">>

ColumnLabels == {L_Day, L_Date, L_Archetype, L_NOTES, L_Room}
RawCells == {NaN, Str(<<" ", "x", " ">>), PyInt(7)}

\* the sheets as read have pairwise distinct labels (the reader renames
\* repeated headers), at most MaxCols columns and MaxRows rows
\* the row lists of a sheet of the given width with n rows; a sheet without
\* columns has no rows
RawRows(width, n) == IF width = 0 THEN {<<>>} ELSE [1..n -> [1..width -> RawCells]]

\* labels made of at most MaxWords pieces: keywords in either case, a letter
\* that turns "day" into "days", a blank, and a word no rule knows
MaxWords == 3
LabelWords ==
    {L_Date, K_day, L_Activity, K_title, L_Start, <<"E", "n", "d">>, <<"A", "R", "C", "H", "E", "T", "Y", "P", "E">>,
     K_note, K_detail, <<"E", "x", "a", "m">>, L_Room, <<"s">>, <<" ">>}
RECURSIVE Concat(_)
Concat(words) == IF words = <<>> THEN <<>> ELSE Head(words) \o Concat(Tail(words))

(***************************************************************************)
(* Inputs of the builders                                                  *)
(***************************************************************************)
MaxEvents == 2
MaxGridDays == 1

StandardColumns == <<K_day, K_title, K_start, K_end, K_archetype, K_notes>>

EventDays == {D_Monday, D_monday}
EventTimes == {<<T_0800, T_0845>>, <<T_0000, T_0700>>, <<T_8, T_empty>>}
EventArchetypes == {CHR_Chronos, <<>>}

\* the rows of a normalized schedule: six trimmed strings
EventRowsOn(day_labels) ==
    {<<Str(d), Str(<<"T">>), Str(t[1]), Str(t[2]), Str(a), Str(<<>>)>> :
        d \in day_labels, t \in EventTimes, a \in EventArchetypes}

\* the schedules handed to the builders directly, and those shown in a tab
\* (where a blank day matters)
EventRows == EventRowsOn(EventDays)
TabEventRows == EventRowsOn(EventDays \cup {D_blank})

\* the day labels handed to the builders
GridDayLabels == {D_Monday, D_Friday}

(***************************************************************************)
(* Inputs of main()                                                        *)
(***************************************************************************)
MaxUploads == 2

N_busy_week == <<"b", "u", "s", "y", "_", "w", "e", "e", "k", ".", "x", "l", "s", "x">>
N_quiet_week == <<"q", "u", "i", "e", "t", "_", "w", "e", "e", "k", ".", "x", "l", "s", "x">>
N_Quiet == <<"M", "y", " ", "Q", "U", "I", "E", "T", ".", "x", "l", "s">>
N_busy_quiet == <<"q", "u", "i", "e", "t", "_", "b", "u", "s", "y", ".", "x", "l", "s", "x">>
N_week == <<"w", "e", "e", "k", ".", "x", "l", "s", "x">>

\* two readable sheets of the layouts the help text shows, and one whose
\* "Date" and "Day" columns both rename to 'day'
Sheet_Monday ==
    DataFrame(<<L_Date, L_Activity, L_Start, L_End_Time>>,
              << <<Str(D_Monday), Str(<<"T">>), Str(T_0800), Str(T_0845)>> >>)
Sheet_Friday ==
    DataFrame(<<L_Day, L_Activity, L_Start, L_Details>>,
              << <<Str(D_Friday), Str(<<"T">>), Str(T_0800), NaN>> >>)
Sheet_Date_Day ==
    DataFrame(<<L_Date, L_Day>>, << <<Str(D_Monday), Str(D_Monday)>> >>)

UploadNames == {N_busy_week, N_Quiet, N_busy_quiet, N_week}
UploadContents == {Unreadable, Sheet_Monday, Sheet_Friday, Sheet_Date_Day}
Uploads == [name : UploadNames, content : UploadContents]

(***************************************************************************)
(* Values of the variables of the operations a behaviour does not use      *)
(***************************************************************************)
TimeIdle ==
    /\ time_str = <<>>
    /\ minutes = None
    /\ event = [start |-> <<>>, end |-> <<>>]
    /\ slot = start_hour * 60
    /\ matching = FALSE

DaysIdle ==
    /\ days_list = <<>>
    /\ sorted_days = <<>>

NormIdle ==
    /\ raw_df = DataFrame(<<>>, <<>>)
    /\ normalized_df = DataFrame(<<>>, <<>>)

BuildIdle ==
    /\ tab_df = DataFrame(<<>>, <<>>)
    /\ tab_days = <<>>
    /\ fig = None
    /\ ws_rows = <<>>

MainIdle ==
    /\ data_dir = [busy |-> Absent, quiet |-> Absent]
    /\ uploaded_files = <<>>
    /\ file_i = 1
    /\ busy_df = DataFrame(<<>>, <<>>)
    /\ quiet_df = DataFrame(<<>>, <<>>)
    /\ sidebar = <<>>

(***************************************************************************)
(* Operations and specifications                                           *)
(***************************************************************************)
\* one call parse_time_minutes(time_str)
ParseTimeMinutes ==
    /\ pc = "call parse_time_minutes"
    /\ pc' = "parse_time_minutes"
    /\ minutes' = parse_time_minutes(time_str)
    /\ UNCHANGED <<time_str, event, slot, matching>>
    /\ UNCHANGED <<dayVars, normVars, buildVars, mainVars>>

\* one pass of the loop body over day_events for one slot; the last call of
\* parse_time_minutes in it is the one on event["end"]
SlotTest ==
    /\ pc = "call slot_test"
    /\ pc' = "slot_test"
    /\ matching' = occupies_slot(event, slot)
    /\ time_str' = event.end
    /\ minutes' = parse_time_minutes(event.end)
    /\ UNCHANGED <<event, slot>>
    /\ UNCHANGED <<dayVars, normVars, buildVars, mainVars>>

InitTime ==
    /\ pc = "call parse_time_minutes"
    /\ time_str \in TimeTexts
    /\ minutes = None
    /\ event = [start |-> <<>>, end |-> <<>>]
    /\ slot = start_hour * 60
    /\ matching = FALSE
    /\ DaysIdle
    /\ NormIdle
    /\ BuildIdle
    /\ MainIdle
NextTime == ParseTimeMinutes
SpecTime == InitTime /\ [][NextTime]_vars

InitSlot ==
    /\ pc = "call slot_test"
    /\ event \in [start : ClockTexts, end : ClockTexts]
    /\ slot \in slots
    /\ time_str = <<>>
    /\ minutes = None
    /\ matching = FALSE
    /\ DaysIdle
    /\ NormIdle
    /\ BuildIdle
    /\ MainIdle
NextSlot == SlotTest
SpecSlot == InitSlot /\ [][NextSlot]_vars

\* one call sort_days(days_list)
SortDays ==
    /\ pc = "call sort_days"
    /\ pc' = "sort_days"
    /\ sorted_days' = sort_days(days_list)
    /\ UNCHANGED days_list
    /\ UNCHANGED <<timeVars, normVars, buildVars, mainVars>>

InitDays ==
    /\ pc = "call sort_days"
    /\ days_list \in DistinctLists(DayLabels, MaxDays)
    /\ sorted_days = <<>>
    /\ TimeIdle
    /\ NormIdle
    /\ BuildIdle
    /\ MainIdle
NextDays == SortDays
SpecDays == InitDays /\ [][NextDays]_vars

\* one call normalize_dataframe(raw_df, file_name)
NormalizeDataframe ==
    /\ pc = "call normalize_dataframe"
    /\ pc' = "normalize_dataframe"
    /\ normalized_df' = normalize_dataframe(raw_df)
    /\ UNCHANGED raw_df
    /\ UNCHANGED <<timeVars, dayVars, buildVars, mainVars>>

InitNorm ==
    /\ pc = "call normalize_dataframe"
    /\ \E c \in DistinctLists(ColumnLabels, MaxCols) : \E n \in 0..MaxRows : \E d \in RawRows(Len(c), n) :
          raw_df = DataFrame(c, d)
    /\ normalized_df = DataFrame(<<>>, <<>>)
    /\ TimeIdle
    /\ DaysIdle
    /\ BuildIdle
    /\ MainIdle
NextNorm == NormalizeDataframe
SpecNorm == InitNorm /\ [][NextNorm]_vars

\* normalize_dataframe called on a sheet with one column, of any label, and
\* at most MaxRows rows that hold the same text
InitMap ==
    /\ pc = "call normalize_dataframe"
    /\ \E k \in 1..MaxWords : \E words \in [1..k -> LabelWords] : \E n \in 0..MaxRows :
          raw_df = DataFrame(<<Concat(words)>>, [r \in 1..n |-> <<Str(<<" ", "x", " ">>)>>])
    /\ normalized_df = DataFrame(<<>>, <<>>)
    /\ TimeIdle
    /\ DaysIdle
    /\ BuildIdle
    /\ MainIdle
NextMap == NormalizeDataframe
SpecMap == InitMap /\ [][NextMap]_vars

\* one call create_calendar_heatmap(df, days, week_key, show_text)
CreateCalendarHeatmap ==
    /\ pc = "call create_calendar_heatmap"
    /\ pc' = "call create_excel_export"
    /\ fig' = create_calendar_heatmap(tab_df, tab_days)
    /\ UNCHANGED <<tab_df, tab_days, ws_rows>>
    /\ UNCHANGED <<timeVars, dayVars, normVars, mainVars>>

\* one call create_excel_export(df, week_type, days)
CreateExcelExport ==
    /\ pc = "call create_excel_export"
    /\ pc' = "built"
    /\ ws_rows' = create_excel_export(tab_df, tab_days)
    /\ UNCHANGED <<tab_df, tab_days, fig>>
    /\ UNCHANGED <<timeVars, dayVars, normVars, mainVars>>

InitBuild ==
    /\ pc = "call create_calendar_heatmap"
    /\ \E n \in 0..MaxEvents : \E rows \in [1..n -> EventRows] : tab_df = DataFrame(StandardColumns, rows)
    /\ tab_days \in DistinctLists(GridDayLabels, MaxGridDays)
    /\ fig = None
    /\ ws_rows = <<>>
    /\ TimeIdle
    /\ DaysIdle
    /\ NormIdle
    /\ MainIdle
NextBuild == CreateCalendarHeatmap \/ CreateExcelExport
SpecBuild == InitBuild /\ [][NextBuild]_vars

\* one tab of main(): the day list comes from the schedule itself; the sheet
\* is built when the "Download Excel" button was clicked
RenderTab ==
    /\ pc = "tab"
    /\ \E excel_clicked \in BOOLEAN :
          IF Len(tab_df.data) = 0
          THEN /\ pc' = "no data"
               /\ UNCHANGED <<tab_days, fig, ws_rows>>
          ELSE LET sorted == sort_days(unique([r \in 1..Len(tab_df.data) |-> event_field(tab_df, r, K_day)]))
               IN  /\ tab_days' = sorted
                   /\ IF sorted = <<>>
                      THEN /\ pc' = "no valid tab_days"
                           /\ UNCHANGED <<fig, ws_rows>>
                      ELSE /\ fig' = create_calendar_heatmap(tab_df, sorted)
                           /\ IF excel_clicked
                              THEN /\ ws_rows' = create_excel_export(tab_df, sorted)
                                   /\ pc' = "exported"
                              ELSE /\ UNCHANGED ws_rows
                                   /\ pc' = "shown"
    /\ UNCHANGED tab_df
    /\ UNCHANGED <<timeVars, dayVars, normVars, mainVars>>

InitTab ==
    /\ pc = "tab"
    /\ \E n \in 0..MaxEvents : \E rows \in [1..n -> TabEventRows] : tab_df = DataFrame(StandardColumns, rows)
    /\ tab_days = <<>>
    /\ fig = None
    /\ ws_rows = <<>>
    /\ TimeIdle
    /\ DaysIdle
    /\ NormIdle
    /\ MainIdle
NextTab == RenderTab
SpecTab == InitTab /\ [][NextTab]_vars

\* if busy_path.exists(): try ... except
LoadBusyWeek ==
    /\ pc = "busy_path"
    /\ pc' = "quiet_path"
    /\ IF data_dir.busy = Absent
       THEN UNCHANGED <<busy_df, sidebar>>
       ELSE LET loaded == read_and_normalize(data_dir.busy)
            IN  /\ busy_df' = IF loaded.py = "DataFrame" THEN loaded ELSE busy_df
                /\ sidebar' = sidebar \o load_messages(N_busy_week, loaded, "success")
    /\ UNCHANGED <<data_dir, uploaded_files, file_i, quiet_df>>
    /\ UNCHANGED <<timeVars, dayVars, normVars, buildVars>>

\* if quiet_path.exists(): try ... except
LoadQuietWeek ==
    /\ pc = "quiet_path"
    /\ pc' = "uploads"
    /\ IF data_dir.quiet = Absent
       THEN UNCHANGED <<quiet_df, sidebar>>
       ELSE LET loaded == read_and_normalize(data_dir.quiet)
            IN  /\ quiet_df' = IF loaded.py = "DataFrame" THEN loaded ELSE quiet_df
                /\ sidebar' = sidebar \o load_messages(N_quiet_week, loaded, "success")
    /\ UNCHANGED <<data_dir, uploaded_files, file_i, busy_df>>
    /\ UNCHANGED <<timeVars, dayVars, normVars, buildVars>>

\* one pass of the loop over uploaded_files
LoadUploadedFile ==
    /\ pc = "uploads"
    /\ file_i <= Len(uploaded_files)
    /\ LET after == after_upload(busy_df, quiet_df, uploaded_files[file_i])
       IN  /\ busy_df' = after.busy
           /\ quiet_df' = after.quiet
           /\ sidebar' = sidebar \o after.messages
    /\ file_i' = file_i + 1
    /\ UNCHANGED <<pc, data_dir, uploaded_files>>
    /\ UNCHANGED <<timeVars, dayVars, normVars, buildVars>>

\* the loop is over: main() goes on to the tabs
ShowTabs ==
    /\ pc = "uploads"
    /\ file_i > Len(uploaded_files)
    /\ pc' = "tabs"
    /\ UNCHANGED mainVars
    /\ UNCHANGED <<timeVars, dayVars, normVars, buildVars>>

Init ==
    /\ pc = "busy_path"
    /\ data_dir \in [busy : {Absent, Unreadable, Sheet_Monday}, quiet : {Absent, Sheet_Friday}]
    /\ \E n \in 0..MaxUploads : uploaded_files \in [1..n -> Uploads]
    /\ file_i = 1
    /\ busy_df = DataFrame(<<>>, <<>>)
    /\ quiet_df = DataFrame(<<>>, <<>>)
    /\ sidebar = <<>>
    /\ TimeIdle
    /\ DaysIdle
    /\ NormIdle
    /\ BuildIdle
Next == LoadBusyWeek \/ LoadQuietWeek \/ LoadUploadedFile \/ ShowTabs
Spec == Init /\ [][Next]_vars

(***************************************************************************)
(* Claims                                                                  *)
(***************************************************************************)
\* C7: parse_time_minutes never raises: it returns hours*60 + minutes of the
\* first two ":"-separated parts when both are integers (further parts are
\* ignored), and None when the text has no ":", is blank, or one of the first
\* two parts is not an integer.
C7_ParseClock ==
    pc = "parse_time_minutes" =>
        LET parts == split_on(time_str, ":")
        IN  /\ minutes.py \in {"int", "None"}
            /\ (\A i \in 1..Len(time_str) : time_str[i] # ":") => minutes = None
            /\ (\A i \in 1..Len(time_str) : time_str[i] \in Whitespace) => minutes = None
            /\ Len(parts) >= 2 =>
                  IF int(parts[1]).py = "int" /\ int(parts[2]).py = "int"
                  THEN minutes = PyInt(int(parts[1]).v * 60 + int(parts[2]).v)
                  ELSE minutes = None
            /\ time_str = T_0800 => minutes = PyInt(480)
            /\ time_str = T_080000 => minutes = PyInt(480)
            /\ time_str = T_8 => minutes = None
            /\ time_str = T_empty => minutes = None

\* a call whose first two parts are not both integers came back with None
C7_Witness ==
    /\ pc = "parse_time_minutes"
    /\ time_str = <<"8", ":", "x">>
    /\ minutes = None

\* C1: an event occupies a slot iff both of its times parse and
\* start <= slot < end, also when the start parses to minute 0.
C1_OccupiesSlot ==
    pc = "slot_test" =>
        (matching <=>
            /\ parse_time_minutes(event.start) # None
            /\ parse_time_minutes(event.end) # None
            /\ parse_time_minutes(event.start).v <= slot
            /\ slot < parse_time_minutes(event.end).v)

\* the weekday names the ordering knows, Monday first
EnglishNames == <<"monday", "tuesday", "wednesday", "thursday", "friday", "saturday", "sunday">>
EnglishAbbreviations == <<"mon", "tue", "wed", "thu", "fri", "sat", "sun">>
FrenchNames == <<"lundi", "mardi", "mercredi", "jeudi", "vendredi", "samedi", "dimanche">>
FrenchAbbreviations == <<"lun", "mar", "mer", "jeu", "ven", "sam", "dim">>

\* the rank of a non-blank label: the weekday number of its lower-cased first
\* token, 99 when the token is no weekday name
WeekdayRank(d) ==
    LET token == Join(Head(split_ws(lower(d))))
        known == {i \in 1..7 : token \in {EnglishNames[i], EnglishAbbreviations[i], FrenchNames[i], FrenchAbbreviations[i]}}
    IN  IF known = {} THEN 99 ELSE CHOOSE i \in known : TRUE

IsBlankDay(d) == strip(d) = <<>> \/ lower(strip(d)) = <<"n", "a", "n">>

PositionIn(list, d) == CHOOSE i \in 1..Len(list) : list[i] = d

\* C6: sort_days returns exactly the non-blank labels of its input, spelling
\* kept, ordered by the weekday rank of their first token; a label with an
\* unknown first token is kept and comes after every weekday (rank 99);
\* labels of equal rank keep their input order.
C6_CanonicalOrder ==
    pc = "sort_days" =>
        LET In == {days_list[i] : i \in 1..Len(days_list)}
            Out == {sorted_days[i] : i \in 1..Len(sorted_days)}
        IN  /\ Out = {d \in In : ~IsBlankDay(d)}
            /\ Len(sorted_days) = Cardinality(Out)
            /\ \A i, j \in 1..Len(sorted_days) :
                  i < j =>
                    /\ WeekdayRank(sorted_days[i]) <= WeekdayRank(sorted_days[j])
                    /\ WeekdayRank(sorted_days[i]) = WeekdayRank(sorted_days[j])
                         => PositionIn(days_list, sorted_days[i]) < PositionIn(days_list, sorted_days[j])
            /\ days_list = <<D_Friday, D_monday, D_Tue_date>>
                  => sorted_days = <<D_monday, D_Tue_date, D_Friday>>

\* a blank dropped, an unknown label kept last, a tie left in input order
C6_Witness ==
    /\ pc = "sort_days"
    /\ days_list = <<D_Someday, D_monday, D_blank, D_Lundi>>
    /\ sorted_days = <<D_monday, D_Lundi, D_Someday>>

\* the six canonical fields
CanonicalFields == {K_day, K_title, K_start, K_end, K_archetype, K_notes}

\* the input columns that classify to a field
ColumnsOf(field) == {i \in 1..Len(raw_df.columns) : recognized(raw_df.columns[i]) /\ standard_name(raw_df.columns[i]) = field}

\* the columns of the result that carry a label
ResultColumns(label) == {i \in 1..Len(normalized_df.columns) : normalized_df.columns[i] = label}

IsTrimmedString(cell) ==
    /\ cell.py = "str"
    /\ cell.s # <<>> => cell.s[1] \notin Whitespace /\ cell.s[Len(cell.s)] \notin Whitespace

\* every row of the result has the six canonical fields, each a trimmed
\* string; a field no input column classifies to holds its default
SixFieldsPresent ==
    /\ normalized_df.py = "DataFrame"
    /\ Len(normalized_df.data) = Len(raw_df.data)
    /\ \A f \in CanonicalFields : ResultColumns(f) # {}
    /\ \A r \in 1..Len(normalized_df.data) :
          /\ Len(normalized_df.data[r]) = Len(normalized_df.columns)
          /\ \A i \in 1..Len(normalized_df.columns) : IsTrimmedString(normalized_df.data[r][i])
          /\ \A f \in CanonicalFields : \A i \in ResultColumns(f) :
                ColumnsOf(f) = {} =>
                    normalized_df.data[r][i] = Str(IF f = K_archetype THEN CHR_Chronos ELSE <<>>)

\* C3: for all inputs, several labels of one canonical field included,
\* normalize_dataframe returns rows that have all six canonical fields, each a
\* trimmed string and never null, an absent archetype being "CHR - Chronos"
\* and any other absent field the empty string.
C3_AlwaysSixFields == pc = "normalize_dataframe" => SixFieldsPresent

\* C9: when several input columns classify to the same canonical field,
\* normalize_dataframe completes and the field holds the values of the later
\* column, once.
C9_LastWriteWins ==
    pc = "normalize_dataframe" =>
        \A f \in CanonicalFields :
            Cardinality(ColumnsOf(f)) > 1 =>
                /\ normalized_df.py = "DataFrame"
                /\ Cardinality(ResultColumns(f)) = 1
                /\ LET later == CHOOSE i \in ColumnsOf(f) : \A j \in ColumnsOf(f) : j <= i
                   IN  \A r \in 1..Len(raw_df.data) : \A i \in ResultColumns(f) :
                          normalized_df.data[r][i] =
                              Str(strip(filled_str(column_cells(raw_df, later), raw_df.data[r][later])))

\* C10 as claimed: the fields of the result are exactly the six canonical
\* ones, every column of an unrecognized label being dropped.
C10_UnrecognizedDropped ==
    (pc = "normalize_dataframe" /\ normalized_df.py = "DataFrame") =>
        {normalized_df.columns[i] : i \in 1..Len(normalized_df.columns)} = CanonicalFields

\* C10 as amended: normalize_dataframe raises exactly when two input columns
\* classify to the same field; otherwise the result keeps every column of an
\* unrecognized label, under that label and with its cells as trimmed
\* strings, next to the six canonical fields and nothing else.
C10_UnrecognizedKept ==
    pc = "normalize_dataframe" =>
        LET Unrecognized == {i \in 1..Len(raw_df.columns) : ~recognized(raw_df.columns[i])}
        IN  IF \E f \in CanonicalFields : Cardinality(ColumnsOf(f)) > 1
            THEN normalized_df = AttributeError
            ELSE /\ normalized_df.py = "DataFrame"
                 /\ {normalized_df.columns[i] : i \in 1..Len(normalized_df.columns)}
                      = CanonicalFields \cup {raw_df.columns[i] : i \in Unrecognized}
                 /\ \A i \in Unrecognized :
                      /\ normalized_df.columns[i] = raw_df.columns[i]
                      /\ \A r \in 1..Len(raw_df.data) :
                            normalized_df.data[r][i] =
                                Str(strip(filled_str(column_cells(raw_df, i), raw_df.data[r][i])))

\* a sheet with a recognized and an unrecognized column came back with both
C10_Witness ==
    /\ pc = "normalize_dataframe"
    /\ raw_df = DataFrame(<<L_Room, L_Day>>, << <<Str(<<" ", "x", " ">>), NaN>> >>)
    /\ normalized_df.py = "DataFrame"
    /\ normalized_df.columns = <<L_Room, K_day, K_title, K_start, K_end, K_archetype, K_notes>>
    /\ normalized_df.data[1][1] = Str(<<"x">>)

\* C2: with the day list derived by sort_days from the schedule's distinct
\* day values, every event of the schedule is written to the sheet exactly
\* once, whatever its times, its day being blank or not, and labels that
\* differ only in case included.
C2_EveryEventOnce ==
    pc = "exported" =>
        \A r \in 1..Len(tab_df.data) : Cardinality({k \in 1..Len(ws_rows) : ws_rows[k].index = r}) = 1

\* the claim's own notion of occupancy (C1): both times parse and
\* start <= slot < end
Occupies(r, sl) ==
    LET start_min == parse_time_minutes(event_field(tab_df, r, K_start))
        end_min == parse_time_minutes(event_field(tab_df, r, K_end))
    IN  start_min # None /\ end_min # None /\ start_min.v <= sl /\ sl < end_min.v

\* C5: every (slot, day) cell holds the first event in row order among those
\* that match the day (trimmed, case ignored) and occupy the slot, and the
\* empty sentinel when there is none.
C5_FirstEventWins ==
    (pc \in {"call create_excel_export", "built"} /\ fig # None) =>
        \A sl \in slots : \A k \in 1..Len(tab_days) :
            LET candidates == {r \in 1..Len(tab_df.data) :
                                  /\ lower(strip(event_field(tab_df, r, K_day))) = lower(strip(tab_days[k]))
                                  /\ Occupies(r, sl)}
            IN  IF candidates = {}
                THEN fig.event[sl][k] = 0
                ELSE fig.event[sl][k] \in candidates /\ \A r \in candidates : fig.event[sl][k] <= r

\* C8: for a day of the given list without any matching event in a non-empty
\* schedule, the sheet has exactly one row of that day and it is the
\* "Free time" placeholder, and the day's grid column holds the empty
\* sentinel's category index and an empty text in every slot.
C8_FreeDay ==
    (pc = "built" /\ Len(tab_df.data) > 0) =>
        \A k \in 1..Len(tab_days) :
            (\A r \in 1..Len(tab_df.data) : lower(strip(event_field(tab_df, r, K_day))) # lower(strip(tab_days[k]))) =>
                /\ Cardinality({i \in 1..Len(ws_rows) : ws_rows[i].A = Str(tab_days[k])}) = 1
                /\ \A i \in 1..Len(ws_rows) :
                      ws_rows[i].A = Str(tab_days[k]) =>
                          ws_rows[i] = [index |-> 0, A |-> Str(tab_days[k]), B |-> None,
                                        C |-> Str(Free_time), D |-> None, E |-> None]
                /\ fig.py = "Figure"
                /\ \A sl \in slots :
                      /\ fig.z[sl][k] = Cardinality({a \in {event_field(tab_df, r, K_archetype) : r \in 1..Len(tab_df.data)} : text_less(a, EMPTY)})
                      /\ fig.text[sl][k] = <<>>

\* Friday is given, the schedule has a Monday event only, of blank archetype:
\* one placeholder row and a column of category index 1
C8_Witness ==
    /\ pc = "built"
    /\ tab_days = <<D_Friday>>
    /\ tab_df.data = << <<Str(D_Monday), Str(<<"T">>), Str(T_0800), Str(T_0845), Str(<<>>), Str(<<>>)>> >>
    /\ Len(ws_rows) = 1
    /\ ws_rows[1].C = Str(Free_time)
    /\ fig.z[480][1] = 1

\* a load fails when the file cannot be read or normalize_dataframe raises
LoadFails(content) == read_and_normalize(content).py # "DataFrame"

\* the schedule an upload's name routes it to
RoutedToQuiet(name) == ~contains(lower(name), K_busy) /\ contains(lower(name), K_quiet)

\* C4: a load that fails leaves both schedules as they were and the loading
\* goes on with the next file; a later file that loads replaces the schedule
\* it is routed to, whatever failed before it.
C4_FailedLoadIsolated ==
    [][/\ (pc = "busy_path" /\ data_dir.busy # Absent /\ LoadFails(data_dir.busy)) =>
            (busy_df' = busy_df /\ quiet_df' = quiet_df /\ pc' = "quiet_path")
       /\ (pc = "uploads" /\ file_i <= Len(uploaded_files)) =>
            LET file == uploaded_files[file_i]
            IN  /\ pc' = "uploads" /\ file_i' = file_i + 1
                /\ LoadFails(file.content) => (busy_df' = busy_df /\ quiet_df' = quiet_df)
                /\ ~LoadFails(file.content) =>
                      IF RoutedToQuiet(file.name)
                      THEN quiet_df' = normalize_dataframe(file.content) /\ busy_df' = busy_df
                      ELSE busy_df' = normalize_dataframe(file.content) /\ quiet_df' = quiet_df
      ]_vars

\* busy_week.xlsx was loaded, a malformed quiet upload failed, the quiet
\* upload after it was loaded, and the busy schedule is still the first one
C4_Witness ==
    /\ pc = "tabs"
    /\ data_dir.busy = Sheet_Monday
    /\ uploaded_files = << [name |-> N_Quiet, content |-> Sheet_Date_Day],
                           [name |-> N_Quiet, content |-> Sheet_Friday] >>
    /\ busy_df = normalize_dataframe(Sheet_Monday)
    /\ quiet_df = normalize_dataframe(Sheet_Friday)
    /\ \E k \in 1..Len(sidebar) : sidebar[k] = [level |-> "error", file |-> N_Quiet]

\* the uploads before position n that pd.read_excel reads and whose name
\* routes them to the quiet (else to the busy) schedule
ReadUploads(quiet) ==
    {i \in 1..Len(uploaded_files) :
        /\ uploaded_files[i].content # Unreadable
        /\ RoutedToQuiet(uploaded_files[i].name) = quiet}

\* the schedule a variant holds once every file was processed: the
\* normalization of the last read upload routed to it, else that of its
\* data-directory file when there is a readable one, else the empty schedule
ExpectedSchedule(quiet, in_data_dir) ==
    IF ReadUploads(quiet) # {}
    THEN LET last == CHOOSE i \in ReadUploads(quiet) : \A j \in ReadUploads(quiet) : j <= i
         IN  normalize_dataframe(uploaded_files[last].content)
    ELSE IF in_data_dir \notin {Absent, Unreadable}
         THEN normalize_dataframe(in_data_dir)
         ELSE DataFrame(<<>>, <<>>)

\* C11: once every uploaded file was processed in order, each schedule is the
\* normalization of the last successfully read file routed to it ("busy" in
\* the lower-cased name first, else "quiet", else busy by default), or that
\* of its data-directory file, or empty, if no upload was routed to it.
C11_LastReadFileWins ==
    pc = "tabs" =>
        /\ busy_df = ExpectedSchedule(FALSE, data_dir.busy)
        /\ quiet_df = ExpectedSchedule(TRUE, data_dir.quiet)

\* the classification rules in their order: the field, the keywords a label
\* may contain, the words it may equal
RuleFields == <<K_day, K_title, K_start, K_end, K_archetype, K_notes>>
RuleContains == <<{K_date}, {K_activity, K_title}, {K_start}, {K_end}, {K_archetype}, {K_note, K_detail, K_exam}>>
RuleEquals == <<{K_day}, {}, {}, {}, {}, {}>>
RuleMatches(k, label) ==
    LET trimmed == lower(strip(label))
    IN  trimmed \in RuleEquals[k] \/ \E word \in RuleContains[k] : contains(trimmed, word)
MatchingRules(label) == {k \in DOMAIN RuleFields : RuleMatches(k, label)}
FirstRule(label) == CHOOSE k \in MatchingRules(label) : \A j \in MatchingRules(label) : k <= j

\* C12: the one column of the sheet is classified, after trimming and
\* lower-casing its label, into the field of the first rule that matches in
\* the order day, title, start, end, archetype, notes, and into that field
\* only: the column carries that field's name and the five other fields are
\* appended; a label no rule matches keeps its name beside the six appended
\* fields.
C12_FirstRuleWins ==
    pc = "normalize_dataframe" =>
        LET label == raw_df.columns[1]
        IN  /\ normalized_df.py = "DataFrame"
            /\ IF MatchingRules(label) # {}
               THEN /\ normalized_df.columns[1] = RuleFields[FirstRule(label)]
                    /\ Len(normalized_df.columns) = Len(RuleFields)
               ELSE /\ normalized_df.columns[1] = label
                    /\ Len(normalized_df.columns) = Len(RuleFields) + 1

\* "End Date" matches the rules of day and of end, and became the day column
C12_Witness ==
    /\ pc = "normalize_dataframe"
    /\ raw_df.columns = <<L_End_Date>>
    /\ Cardinality(MatchingRules(L_End_Date)) = 2
    /\ normalized_df.py = "DataFrame"
    /\ normalized_df.columns[1] = K_day

====
